---- MODULE Spec2Model ----
(***************************************************************************)
(* State-machine model of the multi-tenant RAG backend                     *)
(* (backend/app/services/{rag,document,embedding,llm}.py and               *)
(* backend/app/api/documents.py).                                          *)
(*                                                                         *)
(* Text is a sequence of one-character strings.  PostgreSQL holds the      *)
(* documents, chunks and audit rows; Redis holds the answer cache and the  *)
(* per-tenant rate counters, both with expiry times on a discrete clock.   *)
(***************************************************************************)
EXTENDS Integers, Sequences, FiniteSets, TLC

(***************************************************************************)
(* Bounds of the model and the configuration it runs under.                *)
(***************************************************************************)
\* settings.rate_limit_requests (config.py:32, default 20): the ceiling R.
RateLimitRequests == 2
\* settings.rate_limit_window (config.py:33, default 60 s): the window W.
RateLimitWindow == 2
\* settings.cache_ttl (config.py:36, default 3600 s).
CacheTtl == 3
\* settings.embedding_dim (config.py:23, default 1536).
EmbeddingDim == 2
\* chunk_text's max_chars / overlap_chars as ingest_document uses them
\* (document.py:21, 500 and 50), scaled to the length of the model's texts.
ChunkMaxChars == 3
ChunkOverlapChars == 1
\* A run is bounded by a budget of operations: the ticks of the clock, the
\* Ask calls (MaxAsks against the rate limiter, AsksOverTime against the
\* cache, AsksOverDocs against the document store), the faults (a store, the
\* database or a provider failing a call) and the documents ingested.
MaxTime == 3
MaxAsks == 4
AsksOverTime == 2
AsksOverDocs == 1
MaxLogDocs == 1
\* The chunker is run on texts of up to MaxParagraphs paragraphs, with
\* max_chars in 1..MaxMaxChars and overlap_chars in 0..MaxOverlapChars.
MaxParagraphs == 5
MaxMaxChars == 5
MaxOverlapChars == 4
\* The embedding is run on texts of up to MaxWords words.
MaxWords == 3
\* The synthesizer is run on ranked lists of up to MaxRows chunks.
MaxRows == 4
\* The Ask calls that run concurrently.
MaxTasks == 3
MaxFaults == 1
MaxDocs == 2
\* Largest latency (ms) a call measures.
MaxLatency == 1

(***************************************************************************)
(* Characters and strings.                                                 *)
(***************************************************************************)
LowerLetters == {"a", "b"}
UpperLetters == {"A", "B"}
Whitespace == {" ", "\n"}

ToLower(c) == CASE c = "A" -> "a" [] c = "B" -> "b" [] OTHER -> c

IsAlnum(c) == c \in LowerLetters \cup UpperLetters

CharCode(c) ==
  CASE c = "a" -> 1 [] c = "b" -> 2 [] c = "A" -> 3 [] c = "B" -> 4
    [] c = " " -> 5 [] c = "\n" -> 6 [] OTHER -> 7

SetMin(S) == CHOOSE x \in S : \A y \in S : x <= y
SetMax(S) == CHOOSE x \in S : \A y \in S : x >= y

\* str.lower()
StrLower(s) == [i \in 1..Len(s) |-> ToLower(s[i])]

\* str.strip()
StrStrip(s) ==
  LET keep == {i \in 1..Len(s) : s[i] \notin Whitespace}
  IN  IF keep = {} THEN <<>> ELSE SubSeq(s, SetMin(keep), SetMax(keep))

\* str.split(): the maximal runs of non-whitespace characters.
RECURSIVE SplitFrom(_, _, _)
SplitFrom(s, i, word) ==
  IF i > Len(s)
  THEN IF word = <<>> THEN <<>> ELSE <<word>>
  ELSE IF s[i] \in Whitespace
       THEN (IF word = <<>> THEN <<>> ELSE <<word>>) \o SplitFrom(s, i + 1, <<>>)
       ELSE SplitFrom(s, i + 1, Append(word, s[i]))

StrSplit(s) == SplitFrom(s, 1, <<>>)

\* s[-n:] for n > 0
StrTail(s, n) == IF Len(s) <= n THEN s ELSE SubSeq(s, Len(s) - n + 1, Len(s))

\* s[:n]
StrHead(s, n) == IF Len(s) <= n THEN s ELSE SubSeq(s, 1, n)

\* "".join(c for c in word if c.isalnum())
CleanWord(w) == SelectSeq(w, IsAlnum)

SeqRange(s) == {s[i] : i \in 1..Len(s)}

(***************************************************************************)
(* hashlib.sha256: a digest of HashWindows + 1 two-byte units, each in    *)
(* 0..UnitMax, computed from the characters of the text.                   *)
(***************************************************************************)
\* A two-byte unit is 0..65535 in the code; 65535 is odd, and so is UnitMax.
UnitHalf == 1
UnitMax == 2 * UnitHalf + 1
\* range(0, min(len(h), 16), 2): 8 windows in the code.
HashWindows == 2
HashMod == 251

RECURSIVE PolyHash(_, _, _)
PolyHash(s, i, acc) ==
  IF i > Len(s) THEN acc
  ELSE PolyHash(s, i + 1, (acc * 31 + CharCode(s[i]) + 7) % HashMod)

Sha256(s) ==
  [j \in 1..(HashWindows + 1) |-> (PolyHash(s, 1, j * 17) \div j) % (UnitMax + 1)]

\* hexdigest()[:16]
Sha256Hex16(s) == PolyHash(s, 1, 0)

(***************************************************************************)
(* document.py: chunk_text.                                                *)
(***************************************************************************)
\* re.split(r"\n\s*\n", s): at a newline the separator runs to the last
\* newline of the whitespace run that starts there (\s* is greedy).
RECURSIVE ReSplit(_, _, _)
ReSplit(s, i, cur) ==
  IF i > Len(s) THEN <<cur>>
  ELSE IF s[i] = "\n"
       THEN LET runEnd == SetMax({j \in i..Len(s) :
                                    \A m \in i..j : s[m] \in Whitespace})
                nls == {j \in (i + 1)..runEnd : s[j] = "\n"}
            IN  IF nls # {}
                THEN <<cur>> \o ReSplit(s, SetMax(nls) + 1, <<>>)
                ELSE ReSplit(s, i + 1, Append(cur, s[i]))
       ELSE ReSplit(s, i + 1, Append(cur, s[i]))

NonEmptyStr(p) == p # <<>>

\* paragraphs = [p.strip() for p in re.split(...) if p.strip()]
Paragraphs(content) ==
  LET pieces == ReSplit(StrStrip(content), 1, <<>>)
      stripped == [i \in 1..Len(pieces) |-> StrStrip(pieces[i])]
  IN  SelectSeq(stripped, NonEmptyStr)

ParaSep == <<"\n", "\n">>

\* The loop over the paragraphs and the final flush of chunk_text.
RECURSIVE ChunkLoop(_, _, _, _, _, _)
ChunkLoop(paras, i, chunks, current, maxChars, overlapChars) ==
  IF i > Len(paras)
  THEN IF StrStrip(current) # <<>> THEN Append(chunks, StrStrip(current)) ELSE chunks
  ELSE LET para == paras[i]
       IN  IF current # <<>> /\ Len(current) + Len(para) + 2 > maxChars
           THEN ChunkLoop(paras, i + 1, Append(chunks, StrStrip(current)),
                          IF overlapChars > 0 /\ Len(current) > overlapChars
                          THEN StrTail(current, overlapChars) \o ParaSep \o para
                          ELSE para,
                          maxChars, overlapChars)
           ELSE ChunkLoop(paras, i + 1, chunks,
                          IF current # <<>> THEN current \o ParaSep \o para ELSE para,
                          maxChars, overlapChars)

\* A variant to compare with: a chunker without the final flush.
ChunkTextNoFlush(content, maxChars, overlapChars) ==
  LET all == ChunkLoop(Paragraphs(content), 1, <<>>, <<>>, maxChars, overlapChars)
  IN  SubSeq(all, 1, Len(all) - 1)

\* chunk_text: the chunk contents in order; chunk i of the code's result
\* ({"index": i, "content": c}) is element i + 1.
chunk_text(content, maxChars, overlapChars) ==
  ChunkLoop(Paragraphs(content), 1, <<>>, <<>>, maxChars, overlapChars)

\* Line 42: [{"index": i, "content": c} for i, c in enumerate(chunks)]
ChunkDicts(content, maxChars, overlapChars) ==
  LET contents == chunk_text(content, maxChars, overlapChars)
  IN  [i \in 1..Len(contents) |-> [index |-> i - 1, content |-> contents[i]]]

\* The texts the chunker is run on: up to MaxParagraphs paragraphs, joined
\* by blank lines, with or without white space around; and texts that are
\* empty or white space only.
ChunkParagraphs == {<<"a">>, <<"a", "b">>, <<"a", "\n", "b">>}
BlankLines == {<<"\n", "\n">>, <<"\n", " ", "\n">>}
Margins == {<<>>, <<" ", "\n">>}

RECURSIVE JoinWith(_, _)
JoinWith(paras, sep) ==
  IF Len(paras) = 1 THEN paras[1]
  ELSE paras[1] \o sep \o JoinWith(Tail(paras), sep)

ChunkInputs ==
  {[paras |-> <<>>, content |-> c] : c \in {<<>>, <<" ">>, <<"\n", "\n">>}}
  \cup {[paras |-> ps, content |-> m \o JoinWith(ps, sep) \o m] :
          ps \in UNION {[1..n -> ChunkParagraphs] : n \in 1..MaxParagraphs},
          sep \in BlankLines, m \in Margins}

(***************************************************************************)
(* embedding.py: EmbeddingService._stub_embed.  A vector is kept as its    *)
(* integer direction; the L2 normalisation divides every component by the  *)
(* same positive norm and is accounted for in CosineScore.                 *)
(***************************************************************************)
Dims == 1..EmbeddingDim

RECURSIVE SumOver(_, _)
SumOver(S, f) ==
  IF S = {} THEN 0
  ELSE LET x == CHOOSE y \in S : TRUE IN f[x] + SumOver(S \ {x}, f)

\* What one word adds to dimension d: for each window k, idx = unit k mod dim
\* and val = unit k+1 mapped to [-1, 1] (here in units of 1/UnitMax).
WordContribution(word, d) ==
  LET clean == CleanWord(word)
      h == Sha256(clean)
      hits == {k \in 1..HashWindows : (h[k] % EmbeddingDim) + 1 = d}
  IN  IF clean = <<>> THEN 0
      ELSE SumOver(hits, [k \in hits |-> 2 * h[k + 1] - UnitMax])

IsZeroVec(v) == \A d \in Dims : v[d] = 0

_stub_embed(text) ==
  LET words == SeqRange(StrSplit(StrLower(text)))
      vec == [d \in Dims |-> SumOver(words, [w \in words |-> WordContribution(w, d)])]
      h == Sha256(text)
  IN  IF ~IsZeroVec(vec) THEN vec
      ELSE [d \in Dims |-> 2 * h[((d - 1) % Len(h)) + 1] - UnitMax]

(***************************************************************************)
(* pgvector: 1 - (a <=> b) is the cosine of the angle between a and b.     *)
(* A score is the exact pair (n, d) standing for n / sqrt(d).              *)
(***************************************************************************)
Dot(u, v) == SumOver(Dims, [d \in Dims |-> u[d] * v[d]])

CosineScore(u, v) == [n |-> Dot(u, v), d |-> Dot(u, u) * Dot(v, v)]

\* a <= b for scores (d > 0 for non-zero vectors)
ScoreLE(a, b) ==
  IF a.n <= 0 /\ b.n >= 0 THEN TRUE
  ELSE IF a.n > 0 /\ b.n <= 0 THEN FALSE
  ELSE IF a.n > 0
       THEN a.n * a.n * b.d <= b.n * b.n * a.d
       ELSE a.n * a.n * b.d >= b.n * b.n * a.d

ScoreLT(a, b) == ~ScoreLE(b, a)

\* score >= p/100 and score > p/100 for a threshold 0 <= p <= 100
ScoreGE(a, p) == a.n >= 0 /\ a.n * a.n * 10000 >= p * p * a.d
ScoreGT(a, p) == a.n > 0 /\ a.n * a.n * 10000 > p * p * a.d

\* round(score, 3), at the model's precision of two decimals
RoundScore(a) ==
  LET mag == SetMax({r \in 0..100 : (2 * r - 1) * (2 * r - 1) * a.d <= 40000 * a.n * a.n
                                     \/ r = 0})
  IN  IF a.n >= 0 THEN mag ELSE 0 - mag

(***************************************************************************)
(* Inputs of the model.                                                    *)
(***************************************************************************)
Tenants == {"tA", "tB"}
Questions == {<<"a">>, <<"B", " ">>}
\* One more question for the runs that need three distinct cache keys.
RateQuestions == Questions \cup {<<"a", "b">>}
\* One question in several spellings, and another question.
KeyQuestions ==
  {<<"a", " ", "b">>, <<"A", " ", "b">>, <<" ", "a", " ", "b", "\n">>,
   <<"a", " ", " ", "b">>, <<"a", "b">>}
TopKs == {1, 2}
\* The documents a tenant may upload: title and content.
Uploads ==
  {[title |-> "T1", content |-> <<"a">>],
   [title |-> "T2", content |-> <<"a", "b", "\n", "\n", "b">>]}
Latencies == 0..MaxLatency

CacheReadFaults == {"none", "unreachable", "malformed"}
CacheWriteFaults == {"none", "unreachable"}
\* "incr": the INCR never reached the store; "incr_reply": it was applied and
\* its reply was lost; "expire": the EXPIRE call raised.
RateFaults == {"none", "incr", "incr_reply", "expire"}
AuditFaults == {"none", "commit", "refresh"}

(***************************************************************************)
(* Python dicts (functions on string keys) and json.                       *)
(***************************************************************************)
None == <<>>

Truthy(d) == DOMAIN d # {}

DictGet(d, k, default) == IF k \in DOMAIN d THEN d[k] ELSE default

DictPut(d, k, v) == [x \in (DOMAIN d) \cup {k} |-> IF x = k THEN v ELSE d[x]]

DictDrop(d, k) == [x \in (DOMAIN d) \ {k} |-> d[x]]

\* json.dumps of a dict: the text, as the set of its "key": value members.
JsonDumps(d) == {<<k, d[k]>> : k \in DOMAIN d}

\* json.loads of such a text.
JsonLoads(text) ==
  [k \in {m[1] : m \in text} |-> (CHOOSE m \in text : m[1] = k)[2]]

(***************************************************************************)
(* State.                                                                  *)
(***************************************************************************)
VARIABLES
  use_openai,  \* bool(settings.openai_api_key), fixed when the process starts
  documents,   \* table documents: a set of rows
  chunks,      \* table document_chunks: the rows in insertion order
  nextDoc,     \* the next fresh document id
  audit,       \* table ai_requests: the rows in insertion order
  cache,       \* Redis rag:cache:* keys -> [data, expires_at, writer]; writer
               \* is history: the tenant whose Ask stored the entry
  rate,        \* Redis rag:ratelimit:* keys -> [count, expires_at]
  now,         \* the clock
  hist,        \* per tenant: the admission checks of its current window
  budget,      \* what is left of the run's budget of operations
  last,        \* what the last operation did and returned
  tasks        \* the Ask calls in progress: where each one is in query()
               \* and the values of its local variables

vars == <<use_openai, documents, chunks, nextDoc, audit, cache, rate, now, hist,
          budget, last, tasks>>

NoExpiry == 0 - 1

\* A Redis key is live until its expiry time.
Live(store, key) ==
  key \in DOMAIN store /\ (store[key].expires_at = NoExpiry \/ now < store[key].expires_at)

StorePut(store, key, val) ==
  [x \in (DOMAIN store) \cup {key} |-> IF x = key THEN val ELSE store[x]]

(***************************************************************************)
(* rag.py: the Redis cache.                                                *)
(***************************************************************************)
\* A variant to compare with: one key space shared by all tenants.
SharedCacheKey(tenant_id, question) ==
  <<"rag", "cache", "", Sha256Hex16(StrLower(StrStrip(question)))>>

\* f"rag:cache:{tenant_id}:{q_hash}"; a tenant id is a UUID, so the key
\* splits into these four fields.
_cache_key(tenant_id, question) ==
  <<"rag", "cache", tenant_id, Sha256Hex16(StrLower(StrStrip(question)))>>

\* A variant to compare with: a read that trusts the store whatever it says.
TrustingGetCache(key, fault) ==
  IF Live(cache, key) THEN JsonLoads(cache[key].data) ELSE None

_get_cache(key, fault) ==
  IF fault # "none" THEN None
  ELSE IF Live(cache, key) THEN JsonLoads(cache[key].data) ELSE None

\* A variant to compare with: a write that adds its fields to the entry it
\* finds.
MergingSetCache(tenant_id, key, value, fault) ==
  IF fault # "none" THEN cache
  ELSE StorePut(cache, key,
                [data |-> JsonDumps(DictDrop(value, "request_id"))
                            \cup (IF Live(cache, key) THEN cache[key].data ELSE {}),
                 expires_at |-> now + CacheTtl,
                 writer |-> tenant_id])

\* A variant to compare with: a write that stores every field of the value.
KeepingSetCache(tenant_id, key, value, fault) ==
  IF fault # "none" THEN cache
  ELSE StorePut(cache, key,
                [data |-> JsonDumps(value),
                 expires_at |-> now + CacheTtl,
                 writer |-> tenant_id])

\* A variant to compare with: a write that stores the answer without its sources.
LossySetCache(tenant_id, key, value, fault) ==
  IF fault # "none" THEN cache
  ELSE StorePut(cache, key,
                [data |-> JsonDumps(DictDrop(DictDrop(value, "request_id"), "sources")),
                 expires_at |-> now + CacheTtl,
                 writer |-> tenant_id])

\* The cache after tenant_id's Ask ran _set_cache(key, value).
_set_cache(tenant_id, key, value, fault) ==
  IF fault # "none" THEN cache
  ELSE StorePut(cache, key,
                [data |-> JsonDumps(DictDrop(value, "request_id")),
                 expires_at |-> now + CacheTtl,
                 writer |-> tenant_id])

(***************************************************************************)
(* rag.py: the rate limiter.                                               *)
(***************************************************************************)
RateKey(tenant_id) == <<"rag", "ratelimit", tenant_id>>

\* A variant to compare with: a counter whose update is lost when the key
\* exists.
LostUpdateIncr(key) ==
  IF Live(rate, key) THEN rate
  ELSE StorePut(rate, key, [count |-> 1, expires_at |-> NoExpiry])

\* Redis INCR: a missing key counts from 0 and gets no expiry.
RedisIncr(key) ==
  IF Live(rate, key)
  THEN StorePut(rate, key, [rate[key] EXCEPT !.count = @ + 1])
  ELSE StorePut(rate, key, [count |-> 1, expires_at |-> NoExpiry])

\* A variant to compare with: admission below the ceiling only.
StrictCeilingCheck(tenant_id, fault) ==
  LET key == RateKey(tenant_id)
      incremented == RedisIncr(key)
      current == incremented[key].count
  IN  IF fault = "incr" THEN [allowed |-> TRUE, rate |-> rate]
      ELSE IF fault = "incr_reply" THEN [allowed |-> TRUE, rate |-> incremented]
      ELSE IF current = 1
           THEN IF fault = "expire"
                THEN [allowed |-> TRUE, rate |-> incremented]
                ELSE [allowed |-> current < RateLimitRequests,
                      rate |-> StorePut(incremented, key,
                                 [incremented[key] EXCEPT
                                    !.expires_at = now + RateLimitWindow])]
           ELSE [allowed |-> current < RateLimitRequests, rate |-> incremented]

\* A variant to compare with: a limiter that rejects when its store fails.
FailClosedCheck(tenant_id, fault) ==
  LET key == RateKey(tenant_id)
      incremented == RedisIncr(key)
      current == incremented[key].count
  IN  IF fault = "incr" THEN [allowed |-> FALSE, rate |-> rate]
      ELSE IF fault = "incr_reply" THEN [allowed |-> FALSE, rate |-> incremented]
      ELSE IF current = 1
           THEN IF fault = "expire"
                THEN [allowed |-> FALSE, rate |-> incremented]
                ELSE [allowed |-> current <= RateLimitRequests,
                      rate |-> StorePut(incremented, key,
                                 [incremented[key] EXCEPT
                                    !.expires_at = now + RateLimitWindow])]
           ELSE [allowed |-> current <= RateLimitRequests, rate |-> incremented]

\* _check_rate_limit: [allowed, rate] with the store as the call leaves it.
_check_rate_limit(tenant_id, fault) ==
  LET key == RateKey(tenant_id)
      incremented == RedisIncr(key)
      current == incremented[key].count
  IN  IF fault = "incr" THEN [allowed |-> TRUE, rate |-> rate]
      ELSE IF fault = "incr_reply" THEN [allowed |-> TRUE, rate |-> incremented]
      ELSE IF current = 1
           THEN IF fault = "expire"
                THEN [allowed |-> TRUE, rate |-> incremented]
                ELSE [allowed |-> current <= RateLimitRequests,
                      rate |-> StorePut(incremented, key,
                                 [incremented[key] EXCEPT
                                    !.expires_at = now + RateLimitWindow])]
           ELSE [allowed |-> current <= RateLimitRequests, rate |-> incremented]

\* The faults a check can meet: EXPIRE is called on the first increment only.
RateFaultsAt(tenant_id) ==
  IF Live(rate, RateKey(tenant_id)) THEN RateFaults \ {"expire"} ELSE RateFaults

(***************************************************************************)
(* rag.py: tenant-scoped vector retrieval.                                 *)
(***************************************************************************)
\* float(row.score) if row.score else 0.0
RowScore(score) == IF score.n = 0 THEN [n |-> 0, d |-> 1] ELSE score

\* The row the SELECT yields for a chunk: the chunk joined with its document.
RowOf(c, qvec) ==
  [content |-> c.content,
   chunk_index |-> c.chunk_index,
   document_title |-> (CHOOSE d \in documents : d.id = c.document_id).title,
   score |-> RowScore(CosineScore(c.embedding, qvec))]

\* A variant to compare with: the JOIN without the tenant condition.
AnyTenantChunks(tenant_id) ==
  {i \in 1..Len(chunks) : \E d \in documents : d.id = chunks[i].document_id}

\* WHERE dc.tenant_id = :tenant_id (with the JOIN on the chunk's document)
TenantChunks(tenant_id) ==
  {i \in 1..Len(chunks) :
     /\ chunks[i].tenant_id = tenant_id
     /\ \E d \in documents : d.id = chunks[i].document_id}

\* A variant to compare with: LIMIT applied before ORDER BY.
LimitThenRank(cands, qvec, top_k) ==
  LET sc(i) == CosineScore(chunks[i].embedding, qvec)
      m == IF Cardinality(cands) < top_k THEN Cardinality(cands) ELSE top_k
  IN  {r \in [1..m -> cands] :
         \A i, j \in 1..m : i < j => r[i] # r[j] /\ ScoreLE(sc(r[j]), sc(r[i]))}

\* ORDER BY distance LIMIT top_k over the positions in `cands`: every order
\* the database may return (SQL leaves the order of equal distances open).
RankedLimit(cands, qvec, top_k) ==
  LET sc(i) == CosineScore(chunks[i].embedding, qvec)
      m == IF Cardinality(cands) < top_k THEN Cardinality(cands) ELSE top_k
  IN  {r \in [1..m -> cands] :
         /\ \A i, j \in 1..m : i < j => r[i] # r[j] /\ ScoreLE(sc(r[j]), sc(r[i]))
         /\ \A e \in cands \ {r[i] : i \in 1..m} :
              \A i \in 1..m : ScoreLE(sc(e), sc(r[i]))}

\* _retrieve_chunks: the possible results, each the sequence of the chunk
\* rows (of table document_chunks) the query returns.
_retrieve_chunks(tenant_id, qvec, top_k) ==
  {[i \in DOMAIN r |-> chunks[r[i]]] :
     r \in RankedLimit(TenantChunks(tenant_id), qvec, top_k)}

(***************************************************************************)
(* llm.py: LLMService.                                                     *)
(***************************************************************************)
RelevanceThreshold == 30
HighConfidence == 70
MediumConfidence == 50
TopSources == 3
MinSentenceChars == 20
ExcerptChars == 200

\* content.split(".")
RECURSIVE SplitDot(_, _, _)
SplitDot(s, i, cur) ==
  IF i > Len(s) THEN <<cur>>
  ELSE IF s[i] = "." THEN <<cur>> \o SplitDot(s, i + 1, <<>>)
       ELSE SplitDot(s, i + 1, Append(cur, s[i]))

LongSentence(x) == Len(x) > MinSentenceChars

\* [s.strip() for s in content.split(".") if len(s.strip()) > 20]
Sentences(content) ==
  LET pieces == SplitDot(content, 1, <<>>)
  IN  SelectSeq([i \in 1..Len(pieces) |-> StrStrip(pieces[i])], LongSentence)

RECURSIVE SeqSum(_)
SeqSum(s) == IF s = <<>> THEN 0 ELSE Head(s) + SeqSum(Tail(s))

RECURSIVE Flatten(_)
Flatten(ss) == IF ss = <<>> THEN <<>> ELSE Head(ss) \o Flatten(Tail(ss))

\* round(usd, 6), in units of 1e-6 dollars
CostMicroUsd(inTokens, outTokens) == (2 * (15 * inTokens + 60 * outTokens) + 100) \div 200

NoAnswer ==
  [answer |-> [text |-> "I don't have enough information in the available documents to answer this question.",
               parts |-> <<>>],
   confidence |-> "low",
   sources |-> <<>>,
   reasoning |-> [text |-> "No relevant context found in the knowledge base.",
                  count |-> 0, top |-> 0],
   model_used |-> "stub-llm-v1",
   token_usage |-> [input_tokens |-> 0, output_tokens |-> 0, cost_usd |-> 0]]

\* A variant to compare with: confidence bands that include their lower end.
InclusiveConfidence(score) ==
  IF ScoreGE(score, HighConfidence) THEN "high"
  ELSE IF ScoreGE(score, MediumConfidence) THEN "medium"
  ELSE "low"

\* "high" if score > 0.7 else "medium" if score > 0.5 else "low" (line 114)
Confidence(score) ==
  IF ScoreGT(score, HighConfidence) THEN "high"
  ELSE IF ScoreGT(score, MediumConfidence) THEN "medium"
  ELSE "low"

\* A variant to compare with: a synthesizer that cites every qualifying chunk
\* and asks for a score above the threshold.
UncappedStubResponse(question, rows) ==
  LET Qualifies(r) == ScoreGT(r.score, RelevanceThreshold)
      top == SelectSeq(rows, Qualifies)
  IN  IF top = <<>> THEN NoAnswer
      ELSE [NoAnswer EXCEPT
              !.sources = [i \in 1..Len(top) |->
                             [document_title |-> top[i].document_title,
                              chunk_content |-> StrHead(top[i].content, ExcerptChars),
                              relevance_score |-> RoundScore(top[i].score)]]]

\* _stub_response(question, chunks); chunks are rows as RowOf builds them.
_stub_response(question, rows) ==
  LET Qualifies(r) == ScoreGE(r.score, RelevanceThreshold)
      top == StrHead(SelectSeq(rows, Qualifies), TopSources)
      parts == Flatten([i \in 1..Len(top) |->
                  IF Sentences(top[i].content) # <<>>
                  THEN <<Append(Sentences(top[i].content)[1], ".")>> ELSE <<>>])
      sources == [i \in 1..Len(top) |->
                    [document_title |-> top[i].document_title,
                     chunk_content |-> StrHead(top[i].content, ExcerptChars),
                     relevance_score |-> RoundScore(top[i].score)]]
      answer == IF parts # <<>>
                THEN [text |-> "Based on the available documents:", parts |-> parts]
                ELSE [text |-> "Information found in relevant documents.", parts |-> <<>>]
      confidence == Confidence(top[1].score)
      est_in == Len(StrSplit(question))
                + SeqSum([i \in 1..Len(top) |-> Len(StrSplit(top[i].content))])
      est_out == 5 + SeqSum([i \in 1..Len(parts) |-> Len(StrSplit(parts[i]))])
  IN  IF rows = <<>> \/ \A i \in 1..Len(rows) : ~Qualifies(rows[i])
      THEN NoAnswer
      ELSE [answer |-> answer,
            confidence |-> confidence,
            sources |-> sources,
            reasoning |-> [text |-> "Answer derived from relevant document(s).",
                           count |-> Len(top), top |-> RoundScore(top[1].score)],
            model_used |-> "stub-llm-v1",
            token_usage |-> [input_tokens |-> est_in, output_tokens |-> est_out,
                             cost_usd |-> CostMicroUsd(est_in, est_out)]]

\* What the remote model may answer (the JSON it returns and its usage).  The
\* JSON is the model's own: the second answer carries a field "request_id".
RemoteReplies ==
  {[content |-> [answer |-> [text |-> "remote answer", parts |-> <<>>],
                 confidence |-> "high",
                 sources |-> <<[document_title |-> "T1", chunk_content |-> <<"a">>,
                                relevance_score |-> 90]>>,
                 reasoning |-> [text |-> "remote reasoning", count |-> 1, top |-> 90]],
    usage |-> [prompt_tokens |-> 2, completion_tokens |-> 1]],
   [content |-> [answer |-> [text |-> "remote answer", parts |-> <<>>],
                 confidence |-> "low",
                 sources |-> <<>>,
                 reasoning |-> [text |-> "remote reasoning", count |-> 0, top |-> 0],
                 request_id |-> "made-up"],
    usage |-> [prompt_tokens |-> 1, completion_tokens |-> 1]]}

\* _call_openai, for a reply that parses.
_call_openai(reply) ==
  LET p == DictGet(reply.usage, "prompt_tokens", 0)
      c == DictGet(reply.usage, "completion_tokens", 0)
  IN  DictPut(DictPut(reply.content, "model_used", "gpt-4o-mini"),
              "token_usage",
              [input_tokens |-> p, output_tokens |-> c, cost_usd |-> CostMicroUsd(p, c)])

EmbedFaults == IF use_openai THEN {"none", "transport"} ELSE {"none"}
SynthFaults == IF use_openai THEN {"none", "transport", "malformed_json"} ELSE {"none"}
RetrieveFaults == {"none", "db"}

\* _openai_embed: the remote model, a function of the text.
_openai_embed(text) ==
  [d \in Dims |-> IF d = (PolyHash(text, 1, 3) % EmbeddingDim) + 1 THEN 1 ELSE 0]

\* embedding_service.embed(text)
embed(text) == IF use_openai THEN _openai_embed(text) ELSE _stub_embed(text)

\* The results generate_answer may return when it does not raise.
generate_answer(question, rows) ==
  IF use_openai THEN {_call_openai(r) : r \in RemoteReplies}
  ELSE {_stub_response(question, rows)}

(***************************************************************************)
(* rag.py: the audit log.                                                  *)
(***************************************************************************)
\* A variant to compare with: a logger that keeps the latest record only.
LogLatestOnly(tenant_id, question, result, chunks_used, is_cached, fault) ==
  LET req == [id |-> Len(audit) + 1,
              tenant_id |-> tenant_id,
              query |-> question,
              response |-> [answer |-> DictGet(result, "answer", ""),
                            confidence |-> DictGet(result, "confidence", "")],
              chunks_used |-> [i \in 1..Len(chunks_used) |->
                                 [doc |-> chunks_used[i].document_title,
                                  score |-> chunks_used[i].score]],
              model_used |-> DictGet(result, "model_used", "unknown"),
              token_usage |-> DictGet(result, "token_usage", <<>>),
              latency_ms |-> DictGet(result, "latency_ms", 0),
              cached |-> is_cached,
              status |-> "completed"]
  IN  IF fault = "commit" THEN [ok |-> FALSE, audit |-> audit, id |-> 0]
      ELSE [ok |-> fault = "none", audit |-> <<req>>, id |-> req.id]

\* A variant to compare with: a logger that stores nothing.
LogNothing(tenant_id, question, result, chunks_used, is_cached, fault) ==
  [ok |-> TRUE, audit |-> audit, id |-> Len(audit) + 1]

\* _log_request: [ok, audit, id].  "commit": db.commit() raised and no row is
\* stored; "refresh": the row is committed and db.refresh() raised.
_log_request(tenant_id, question, result, chunks_used, is_cached, fault) ==
  LET req == [id |-> Len(audit) + 1,
              tenant_id |-> tenant_id,
              query |-> question,
              response |-> [answer |-> DictGet(result, "answer", ""),
                            confidence |-> DictGet(result, "confidence", "")],
              chunks_used |-> [i \in 1..Len(chunks_used) |->
                                 [doc |-> chunks_used[i].document_title,
                                  score |-> chunks_used[i].score]],
              model_used |-> DictGet(result, "model_used", "unknown"),
              token_usage |-> DictGet(result, "token_usage", <<>>),
              latency_ms |-> DictGet(result, "latency_ms", 0),
              cached |-> is_cached,
              status |-> "completed"]
  IN  IF fault = "commit" THEN [ok |-> FALSE, audit |-> audit, id |-> 0]
      ELSE [ok |-> fault = "none", audit |-> Append(audit, req), id |-> req.id]

(***************************************************************************)
(* Ghost state: the admission checks of a tenant's current window, counted *)
(* from the first check and for RateLimitWindow after it, and whether the  *)
(* counting store ever failed that tenant.                                 *)
(***************************************************************************)
NoHist ==
  [start |-> NoExpiry, n |-> 0, prev |-> 0, faulted |-> FALSE, admitted |-> <<>>]

\* `admitted` lists the times of the admitted checks of the last
\* RateLimitWindow, the present instant included.
HistAfterCheck(h, fault, allowed) ==
  IF h.faulted \/ fault # "none"
  THEN [NoHist EXCEPT !.faulted = TRUE]
  ELSE LET counted == IF h.start = NoExpiry \/ now >= h.start + RateLimitWindow
                      THEN [h EXCEPT !.start = now, !.n = 1]
                      ELSE [h EXCEPT !.n = @ + 1]
       IN  IF allowed THEN [counted EXCEPT !.admitted = Append(@, now)] ELSE counted

\* The window ends RateLimitWindow after it started; `prev` keeps its count.
\* At time t the checks made at or before t - RateLimitWindow are history.
HistAfterTick(h, t) ==
  LET Recent(at) == at > t - RateLimitWindow
      aged == [h EXCEPT !.admitted = SelectSeq(@, Recent)]
  IN  IF h.start # NoExpiry /\ t >= h.start + RateLimitWindow
      THEN [aged EXCEPT !.start = NoExpiry, !.n = 0, !.prev = h.n]
      ELSE aged

\* The faults of S a call may meet once `used` faults happened in this Ask.
Within(S, used) == IF used < budget.faults THEN S ELSE {"none"}

Used(fault) == IF fault = "none" THEN 0 ELSE 1

(***************************************************************************)
(* rag.py: RAGService.query.                                               *)
(***************************************************************************)
\* str(request_id)
UuidStr(id) == <<"uuid", id>>

\* A variant to compare with: a rejection that claims to come from the cache.
ThrottledAsCached(lat) ==
  [answer |-> [text |-> "Rate limit exceeded. Please try again later.", parts |-> <<>>],
   confidence |-> "low",
   sources |-> <<>>,
   reasoning |-> [text |-> "Request throttled by rate limiter.", count |-> 0, top |-> 0],
   model_used |-> "none",
   latency_ms |-> lat,
   cached |-> TRUE,
   token_usage |-> <<>>]

ThrottledResponse(lat) ==
  [answer |-> [text |-> "Rate limit exceeded. Please try again later.", parts |-> <<>>],
   confidence |-> "low",
   sources |-> <<>>,
   reasoning |-> [text |-> "Request throttled by rate limiter.", count |-> 0, top |-> 0],
   model_used |-> "none",
   latency_ms |-> lat,
   cached |-> FALSE,
   token_usage |-> <<>>]

NoCalls == [embed |-> 0, retrieve |-> 0, synth |-> 0]

\* The record of one Ask: its inputs, the faults it met, the calls it made,
\* how it ended and what it returned.
AskRecord(t, q, k, outcome, response, failed, rf, rlf, wf, checked, allowed, calls, found) ==
  [op |-> "ask", tenant |-> t, question |-> q, top_k |-> k,
   outcome |-> outcome, response |-> response, failed |-> failed,
   cache_read_fault |-> rf, rate_fault |-> rlf, cache_write_fault |-> wf,
   rate_checked |-> checked, allowed |-> allowed, calls |-> calls,
   retrieved |-> found]

Spend(used) ==
  budget' = [budget EXCEPT !.asks = @ - 1, !.faults = @ - used]

\* A variant to compare with: a service that never answers from the cache.
NeverHit(cached) == FALSE

\* if cached: (line 45)
CacheHit(cached) == Truthy(cached)

\* Lines 46-49: the cache hit.
QueryHit(t, q, k, cached, rf) ==
  \E lat \in Latencies, af \in Within(AuditFaults, Used(rf)) :
    LET resp == DictPut(DictPut(cached, "cached", TRUE), "latency_ms", lat)
        lg == _log_request(t, q, resp, <<>>, TRUE, af)
    IN  /\ audit' = lg.audit
        /\ UNCHANGED <<cache, rate, hist>>
        /\ Spend(Used(rf) + Used(af))
        /\ last' = AskRecord(t, q, k, IF lg.ok THEN "hit" ELSE "error",
                             IF lg.ok THEN resp ELSE None,
                             IF lg.ok THEN "none" ELSE "audit_" \o af,
                             rf, "none", "none", FALSE, FALSE, NoCalls, <<>>)

\* Lines 73-83: after synthesis returned `gen` for the chunks `found`.
QueryFinish(t, q, k, key, rf, rlf, qvec, found, gen) ==
  \E lat \in Latencies, wf \in Within(CacheWriteFaults, Used(rf) + Used(rlf)) :
    \E af \in Within(AuditFaults, Used(rf) + Used(rlf) + Used(wf)) :
      LET result == DictPut(DictPut(gen, "cached", FALSE), "latency_ms", lat)
          rows == [i \in 1..Len(found) |-> RowOf(found[i], qvec)]
          lg == _log_request(t, q, result, rows, FALSE, af)
          calls == [embed |-> 1, retrieve |-> 1, synth |-> 1]
      IN  /\ cache' = _set_cache(t, key, result, wf)
          /\ audit' = lg.audit
          /\ Spend(Used(rf) + Used(rlf) + Used(wf) + Used(af))
          /\ last' = AskRecord(t, q, k, IF lg.ok THEN "served" ELSE "error",
                               IF lg.ok THEN DictPut(result, "request_id", UuidStr(lg.id))
                               ELSE None,
                               IF lg.ok THEN "none" ELSE "audit_" \o af,
                               rf, rlf, wf, TRUE, TRUE, calls, found)

\* An Ask that raises before it writes anything to the cache or the audit log.
QueryRaise(t, q, k, rf, rlf, failed, calls) ==
  /\ UNCHANGED <<cache, audit>>
  /\ Spend(Used(rf) + Used(rlf) + 1)
  /\ last' = AskRecord(t, q, k, "error", None, failed, rf, rlf, "none",
                       TRUE, TRUE, calls, <<>>)

\* Lines 65-72: embed, retrieve, synthesize.
QueryPipeline(t, q, k, key, rf, rlf) ==
  \E ef \in Within(EmbedFaults, Used(rf) + Used(rlf)) :
    IF ef # "none"
    THEN QueryRaise(t, q, k, rf, rlf, "embed", [embed |-> 1, retrieve |-> 0, synth |-> 0])
    ELSE \E tf \in Within(RetrieveFaults, Used(rf) + Used(rlf)) :
      IF tf # "none"
      THEN QueryRaise(t, q, k, rf, rlf, "retrieve", [embed |-> 1, retrieve |-> 1, synth |-> 0])
      ELSE \E found \in _retrieve_chunks(t, embed(q), k) :
        \E sf \in Within(SynthFaults, Used(rf) + Used(rlf)) :
          IF sf # "none"
          THEN QueryRaise(t, q, k, rf, rlf, "synth_" \o sf,
                          [embed |-> 1, retrieve |-> 1, synth |-> 1])
          ELSE \E gen \in generate_answer(q, [i \in 1..Len(found) |->
                                                RowOf(found[i], embed(q))]) :
                 QueryFinish(t, q, k, key, rf, rlf, embed(q), found, gen)

\* Lines 51-63: the rate check, and the throttled response.
QueryMiss(t, q, k, key, rf) ==
  \E rlf \in Within(RateFaultsAt(t), Used(rf)) :
    LET rl == _check_rate_limit(t, rlf)
    IN  /\ rate' = rl.rate
        /\ hist' = [hist EXCEPT ![t] = HistAfterCheck(@, rlf, rl.allowed)]
        /\ IF ~rl.allowed
           THEN \E lat \in Latencies :
                  /\ UNCHANGED <<cache, audit>>
                  /\ Spend(Used(rf) + Used(rlf))
                  /\ last' = AskRecord(t, q, k, "throttled", ThrottledResponse(lat),
                                       "none", rf, rlf, "none", TRUE, FALSE,
                                       NoCalls, <<>>)
           ELSE QueryPipeline(t, q, k, key, rf, rlf)

\* A stored value can be unparseable only where a value is stored.
CacheReadFaultsAt(key) ==
  IF Live(cache, key) THEN CacheReadFaults ELSE CacheReadFaults \ {"malformed"}

\* RAGService.query(db, tenant_id, tenant_name, question, top_k)
query(t, q, k) ==
  /\ budget.asks > 0
  /\ UNCHANGED <<use_openai, documents, chunks, nextDoc, now, tasks>>
  /\ LET key == _cache_key(t, q)
     IN  \E rf \in Within(CacheReadFaultsAt(key), 0) :
           LET cached == _get_cache(key, rf)
           IN  IF CacheHit(cached)
               THEN QueryHit(t, q, k, cached, rf)
               ELSE QueryMiss(t, q, k, key, rf)

(***************************************************************************)
(* rag.py: RAGService.query as concurrent tasks of one event loop.  A task *)
(* runs until it awaits a store, the database or a provider; each such     *)
(* call is one step, and the steps of different tasks interleave freely.   *)
(***************************************************************************)
TaskIds == 1..MaxTasks

NewTask ==
  [pc |-> "idle", tenant |-> "", question |-> <<>>, cached |-> None,
   rate_fault |-> "none", cache_write_fault |-> "none", current |-> 0,
   allowed |-> FALSE, calls |-> NoCalls, rows |-> <<>>, result |-> None,
   outcome |-> "",
   response |-> None]

TaskFrame == <<use_openai, documents, chunks, nextDoc, now, hist, last>>

SpendFaults(used) == budget' = [budget EXCEPT !.faults = @ - used]

\* return current <= settings.rate_limit_requests (line 166)
Admitted(current) == current <= RateLimitRequests

\* Lines 40-45: the request arrives and the cache is read.
TaskGetCache(i) ==
  /\ tasks[i].pc = "idle"
  /\ \E t \in Tenants, q \in Questions :
       LET key == _cache_key(t, q)
       IN  \E rf \in Within(CacheReadFaultsAt(key), 0) :
             LET cached == _get_cache(key, rf)
             IN  /\ tasks' = [tasks EXCEPT ![i] =
                      [@ EXCEPT !.pc = IF CacheHit(cached) THEN "log_hit" ELSE "incr",
                                !.tenant = t, !.question = q, !.cached = cached]]
                 /\ SpendFaults(Used(rf))
  /\ UNCHANGED <<cache, rate, audit>>
  /\ UNCHANGED TaskFrame

\* Lines 46-49: the audit record of a cache hit.
TaskLogHit(i) ==
  /\ tasks[i].pc = "log_hit"
  /\ \E lat \in Latencies, af \in Within(AuditFaults, 0) :
       LET me == tasks[i]
           resp == DictPut(DictPut(me.cached, "cached", TRUE), "latency_ms", lat)
           lg == _log_request(me.tenant, me.question, resp, <<>>, TRUE, af)
       IN  /\ audit' = lg.audit
           /\ tasks' = [tasks EXCEPT ![i] =
                [@ EXCEPT !.pc = "done",
                          !.outcome = IF lg.ok THEN "hit" ELSE "error",
                          !.response = IF lg.ok THEN resp ELSE None]]
           /\ SpendFaults(Used(af))
  /\ UNCHANGED <<cache, rate>>
  /\ UNCHANGED TaskFrame

\* Line 163: INCR; and lines 166-168 when EXPIRE is not called.
TaskIncr(i) ==
  /\ tasks[i].pc = "incr"
  /\ \E fault \in Within({"none", "incr", "incr_reply"}, 0) :
       LET key == RateKey(tasks[i].tenant)
           incremented == RedisIncr(key)
           current == incremented[key].count
       IN  /\ rate' = IF fault = "incr" THEN rate ELSE incremented
           /\ tasks' = [tasks EXCEPT ![i] =
                IF fault # "none"
                THEN [@ EXCEPT !.pc = "pipeline", !.rate_fault = fault, !.allowed = TRUE]
                ELSE IF current = 1
                THEN [@ EXCEPT !.pc = "expire", !.current = current]
                ELSE IF Admitted(current)
                THEN [@ EXCEPT !.pc = "pipeline", !.current = current, !.allowed = TRUE]
                ELSE [@ EXCEPT !.pc = "throttled", !.current = current]]
           /\ SpendFaults(Used(fault))
  /\ UNCHANGED <<cache, audit>>
  /\ UNCHANGED TaskFrame

\* Lines 164-168: EXPIRE after the increment that returned 1.
TaskExpire(i) ==
  /\ tasks[i].pc = "expire"
  /\ \E fault \in Within({"none", "expire"}, 0) :
       LET key == RateKey(tasks[i].tenant)
       IN  /\ rate' = IF fault = "none" /\ Live(rate, key)
                      THEN StorePut(rate, key,
                             [rate[key] EXCEPT !.expires_at = now + RateLimitWindow])
                      ELSE rate
           /\ tasks' = [tasks EXCEPT ![i] =
                IF fault # "none"
                THEN [@ EXCEPT !.pc = "pipeline", !.rate_fault = fault, !.allowed = TRUE]
                ELSE IF Admitted(tasks[i].current)
                THEN [@ EXCEPT !.pc = "pipeline", !.allowed = TRUE]
                ELSE [@ EXCEPT !.pc = "throttled"]]
           /\ SpendFaults(Used(fault))
  /\ UNCHANGED <<cache, audit>>
  /\ UNCHANGED TaskFrame

\* Lines 53-63: the throttled response.
TaskThrottled(i) ==
  /\ tasks[i].pc = "throttled"
  /\ \E lat \in Latencies :
       tasks' = [tasks EXCEPT ![i] =
         [@ EXCEPT !.pc = "done", !.outcome = "throttled",
                   !.response = ThrottledResponse(lat)]]
  /\ UNCHANGED <<cache, rate, audit, budget>>
  /\ UNCHANGED TaskFrame

\* Lines 65-74: embed, retrieve, synthesize; nothing is written.
TaskPipeline(i) ==
  /\ tasks[i].pc = "pipeline"
  /\ LET me == tasks[i]
         Raise(calls) ==
           /\ tasks' = [tasks EXCEPT ![i] =
                [@ EXCEPT !.pc = "done", !.outcome = "error", !.calls = calls]]
           /\ SpendFaults(1)
     IN  \E ef \in Within(EmbedFaults, 0), tf \in Within(RetrieveFaults, 0),
            sf \in Within(SynthFaults, 0) :
           IF ef # "none"
           THEN tf = "none" /\ sf = "none"
                /\ Raise([embed |-> 1, retrieve |-> 0, synth |-> 0])
           ELSE IF tf # "none"
           THEN sf = "none" /\ Raise([embed |-> 1, retrieve |-> 1, synth |-> 0])
           ELSE IF sf # "none"
           THEN Raise([embed |-> 1, retrieve |-> 1, synth |-> 1])
           ELSE \E found \in _retrieve_chunks(me.tenant, embed(me.question), SetMax(TopKs)) :
                  \E gen \in generate_answer(me.question,
                                 [j \in 1..Len(found) |-> RowOf(found[j], embed(me.question))]) :
                    \E lat \in Latencies :
                      /\ tasks' = [tasks EXCEPT ![i] =
                           [@ EXCEPT !.pc = "set_cache",
                                     !.calls = [embed |-> 1, retrieve |-> 1, synth |-> 1],
                                     !.rows = [j \in 1..Len(found) |->
                                                 RowOf(found[j], embed(me.question))],
                                     !.result = DictPut(DictPut(gen, "cached", FALSE),
                                                        "latency_ms", lat)]]
                      /\ SpendFaults(0)
  /\ UNCHANGED <<cache, rate, audit>>
  /\ UNCHANGED TaskFrame

\* Line 77: the cache write.
TaskSetCache(i) ==
  /\ tasks[i].pc = "set_cache"
  /\ \E wf \in Within(CacheWriteFaults, 0) :
       LET me == tasks[i]
       IN  /\ cache' = _set_cache(me.tenant, _cache_key(me.tenant, me.question),
                                  me.result, wf)
           /\ tasks' = [tasks EXCEPT ![i] =
                [@ EXCEPT !.pc = "log", !.cache_write_fault = wf]]
           /\ SpendFaults(Used(wf))
  /\ UNCHANGED <<rate, audit>>
  /\ UNCHANGED TaskFrame

\* Lines 80-83: the audit record and the request id.
TaskLog(i) ==
  /\ tasks[i].pc = "log"
  /\ \E af \in Within(AuditFaults, 0) :
       LET me == tasks[i]
           lg == _log_request(me.tenant, me.question, me.result, me.rows, FALSE, af)
       IN  /\ audit' = lg.audit
           /\ tasks' = [tasks EXCEPT ![i] =
                [@ EXCEPT !.pc = "done",
                          !.outcome = IF lg.ok THEN "served" ELSE "error",
                          !.response = IF lg.ok
                                       THEN DictPut(me.result, "request_id", UuidStr(lg.id))
                                       ELSE None]]
           /\ SpendFaults(Used(af))
  /\ UNCHANGED <<cache, rate>>
  /\ UNCHANGED TaskFrame

(***************************************************************************)
(* document.py: ingest_document; api/documents.py: delete_document.       *)
(***************************************************************************)
IngestFaults == IF use_openai THEN {"none", "embed", "db"} ELSE {"none", "db"}

\* embedding_service.embed_batch(texts)
embed_batch(texts) == [i \in 1..Len(texts) |-> embed(texts[i])]

\* A variant to compare with: chunks numbered from 1.
OneBasedChunks(document_id, tenant_id, texts, embeddings) ==
  [i \in 1..Len(texts) |->
     [document_id |-> document_id, tenant_id |-> tenant_id,
      chunk_index |-> i, content |-> texts[i],
      embedding |-> embeddings[i]]]

\* Lines 82-92: the DocumentChunk rows of a document, chunk_index from
\* enumerate(zip(chunks, embeddings)).
DocumentChunks(document_id, tenant_id, texts, embeddings) ==
  [i \in 1..Len(texts) |->
     [document_id |-> document_id, tenant_id |-> tenant_id,
      chunk_index |-> i - 1, content |-> texts[i],
      embedding |-> embeddings[i]]]

\* A variant to compare with: an ingestion whose document row stays when a
\* later write fails.
IngestWithoutTransaction(t, title, content) ==
  /\ budget.ingests > 0
  /\ UNCHANGED <<use_openai, audit, cache, rate, now, hist, tasks>>
  /\ \E fault \in Within(IngestFaults, 0) :
       LET texts == chunk_text(content, ChunkMaxChars, ChunkOverlapChars)
           doc == [id |-> nextDoc, tenant_id |-> t, title |-> title,
                   content |-> content]
       IN  IF fault = "embed"
           THEN /\ UNCHANGED <<documents, chunks, nextDoc>>
                /\ budget' = [budget EXCEPT !.faults = @ - 1, !.ingests = @ - 1]
                /\ last' = [op |-> "ingest", tenant |-> t, outcome |-> "error",
                            doc |-> 0, chunk_count |-> 0]
           ELSE IF fault = "db"
           THEN /\ documents' = documents \cup {doc}
                /\ nextDoc' = nextDoc + 1
                /\ UNCHANGED chunks
                /\ budget' = [budget EXCEPT !.faults = @ - 1, !.ingests = @ - 1]
                /\ last' = [op |-> "ingest", tenant |-> t, outcome |-> "error",
                            doc |-> 0, chunk_count |-> 0]
           ELSE /\ documents' = documents \cup {doc}
                /\ chunks' = chunks \o
                     DocumentChunks(nextDoc, t, texts, embed_batch(texts))
                /\ nextDoc' = nextDoc + 1
                /\ budget' = [budget EXCEPT !.ingests = @ - 1]
                /\ last' = [op |-> "ingest", tenant |-> t, outcome |-> "ok",
                            doc |-> nextDoc, chunk_count |-> Len(texts)]

ingest_document(t, title, content) ==
  /\ budget.ingests > 0
  /\ UNCHANGED <<use_openai, audit, cache, rate, now, hist, tasks>>
  /\ \E fault \in Within(IngestFaults, 0) :
       IF fault # "none"
       THEN /\ UNCHANGED <<documents, chunks, nextDoc>>
            /\ budget' = [budget EXCEPT !.faults = @ - 1, !.ingests = @ - 1]
            /\ last' = [op |-> "ingest", tenant |-> t, outcome |-> "error",
                        doc |-> 0, chunk_count |-> 0]
       ELSE LET texts == chunk_text(content, ChunkMaxChars, ChunkOverlapChars)
                embeddings == embed_batch(texts)
            IN  /\ documents' = documents \cup
                     {[id |-> nextDoc, tenant_id |-> t, title |-> title,
                       content |-> content]}
                /\ chunks' = chunks \o DocumentChunks(nextDoc, t, texts, embeddings)
                /\ nextDoc' = nextDoc + 1
                /\ budget' = [budget EXCEPT !.ingests = @ - 1]
                /\ last' = [op |-> "ingest", tenant |-> t, outcome |-> "ok",
                            doc |-> nextDoc, chunk_count |-> Len(texts)]

\* A variant to compare with: a delete that does not look at the tenant.
DeleteAnyTenant(t, document_id) ==
  /\ UNCHANGED <<use_openai, nextDoc, audit, cache, rate, now, hist, budget, tasks>>
  /\ LET doc == {d \in documents : d.id = document_id}
         Kept(c) == c.document_id # document_id
     IN  IF doc = {}
         THEN /\ UNCHANGED <<documents, chunks>>
              /\ last' = [op |-> "delete", tenant |-> t, doc |-> document_id,
                          outcome |-> "not_found"]
         ELSE /\ documents' = documents \ doc
              /\ chunks' = SelectSeq(chunks, Kept)
              /\ last' = [op |-> "delete", tenant |-> t, doc |-> document_id,
                          outcome |-> "deleted"]

delete_document(t, document_id) ==
  /\ UNCHANGED <<use_openai, nextDoc, audit, cache, rate, now, hist, budget, tasks>>
  /\ LET doc == {d \in documents : d.id = document_id /\ d.tenant_id = t}
         Kept(c) == c.document_id # document_id
     IN  IF doc = {}
         THEN /\ UNCHANGED <<documents, chunks>>
              /\ last' = [op |-> "delete", tenant |-> t, doc |-> document_id,
                          outcome |-> "not_found"]
         ELSE /\ documents' = documents \ doc
              /\ chunks' = SelectSeq(chunks, Kept)
              /\ last' = [op |-> "delete", tenant |-> t, doc |-> document_id,
                          outcome |-> "deleted"]

(***************************************************************************)
(* Time: Redis drops a key when its expiry time is reached.                *)
(***************************************************************************)
Unexpired(store, t) ==
  [key \in {x \in DOMAIN store :
              store[x].expires_at = NoExpiry \/ t < store[x].expires_at} |-> store[key]]

Tick ==
  /\ budget.ticks > 0
  /\ budget' = [budget EXCEPT !.ticks = @ - 1]
  /\ now' = now + 1
  /\ cache' = Unexpired(cache, now + 1)
  /\ rate' = Unexpired(rate, now + 1)
  /\ hist' = [t \in Tenants |-> HistAfterTick(hist[t], now + 1)]
  /\ last' = [op |-> "tick"]
  /\ UNCHANGED <<use_openai, documents, chunks, nextDoc, audit, tasks>>

(***************************************************************************)
(* The system.                                                             *)
(***************************************************************************)
InitWith(b, modes) ==
  /\ use_openai \in modes
  /\ documents = {}
  /\ chunks = <<>>
  /\ nextDoc = 1
  /\ audit = <<>>
  /\ cache = <<>>
  /\ rate = <<>>
  /\ now = 0
  /\ hist = [t \in Tenants |-> NoHist]
  /\ tasks = [i \in TaskIds |-> NewTask]
  /\ budget = b
  /\ last = [op |-> "init"]

Asks == \E t \in Tenants, q \in Questions, k \in TopKs : query(t, q, k)
Ingests == \E t \in Tenants, u \in Uploads : ingest_document(t, u.title, u.content)
Deletes == \E t \in Tenants, id \in 1..MaxDocs : delete_document(t, id)

\* The query pipeline over time: two Ask calls of either tenant.
Init ==
  InitWith([asks |-> AsksOverTime, faults |-> MaxFaults, ingests |-> 0, ticks |-> MaxTime], BOOLEAN)

Next == Asks \/ Tick

Spec == Init /\ [][Next]_vars

\* The document store: documents come and go, then one Ask.
InitDocs ==
  InitWith([asks |-> AsksOverDocs, faults |-> MaxFaults, ingests |-> MaxDocs, ticks |-> 0], BOOLEAN)

NextDocs == Asks \/ Ingests \/ Deletes

SpecDocs == InitDocs /\ [][NextDocs]_vars

\* The audit log: Ask calls before and after a document comes and goes.
InitLog ==
  InitWith([asks |-> AsksOverTime, faults |-> MaxFaults, ingests |-> MaxLogDocs,
            ticks |-> 0], {FALSE})

AsksOfLog == \E t \in Tenants, q \in Questions : query(t, q, SetMax(TopKs))

NextLog == AsksOfLog \/ Ingests \/ Deletes

SpecLog == InitLog /\ [][NextLog]_vars

\* The cache key: one tenant asks one question in several spellings.
InitKey ==
  InitWith([asks |-> AsksOverTime, faults |-> MaxFaults, ingests |-> 0, ticks |-> 0],
           {FALSE})

AsksOfKey == \E q \in KeyQuestions : query("tA", q, SetMax(TopKs))

NextKey == AsksOfKey

SpecKey == InitKey /\ [][NextKey]_vars

\* Concurrent Ask calls: MaxTasks tasks interleave at their awaits.
InitTasks ==
  InitWith([asks |-> 0, faults |-> MaxFaults, ingests |-> 0, ticks |-> 0], {FALSE})

NextTasks ==
  \E i \in TaskIds :
    \/ TaskGetCache(i)
    \/ TaskLogHit(i)
    \/ TaskIncr(i)
    \/ TaskExpire(i)
    \/ TaskThrottled(i)
    \/ TaskPipeline(i)
    \/ TaskSetCache(i)
    \/ TaskLog(i)

SpecTasks == InitTasks /\ [][NextTasks]_vars

\* The chunker alone: a text and parameters are drawn, then chunk_text runs.
InitChunk ==
  /\ use_openai = FALSE
  /\ documents = {}
  /\ chunks = <<>>
  /\ nextDoc = 1
  /\ audit = <<>>
  /\ cache = <<>>
  /\ rate = <<>>
  /\ now = 0
  /\ hist = [t \in Tenants |-> NoHist]
  /\ tasks = [i \in TaskIds |-> NewTask]
  /\ budget = [asks |-> 0, faults |-> 0, ingests |-> 0, ticks |-> 0]
  /\ \E x \in ChunkInputs, m \in 1..MaxMaxChars, o \in 0..MaxOverlapChars :
       last = [op |-> "text", paras |-> x.paras, content |-> x.content,
               max_chars |-> m, overlap_chars |-> o]

ChunkCall ==
  /\ last.op = "text"
  /\ last' = [last EXCEPT !.op = "chunk"] @@
              [result |-> ChunkDicts(last.content, last.max_chars, last.overlap_chars)]
  /\ UNCHANGED <<use_openai, documents, chunks, nextDoc, audit, cache, rate, now,
                 hist, budget, tasks>>

NextChunk == ChunkCall

SpecChunk == InitChunk /\ [][NextChunk]_vars

\* The embedding alone: two texts are drawn, each up to MaxWords words (bare,
\* capitalised, or with punctuation attached) joined by white space, then
\* embed runs on both without a remote model.
EmbedWords == {<<"a">>, <<"A">>, <<"a", ".">>, <<"b">>, <<"a", "b">>, <<".">>}

EmbedTexts ==
  {JoinWith(ws, sep) :
     ws \in UNION {[1..n -> EmbedWords] : n \in 1..MaxWords},
     sep \in {<<" ">>, <<"\n", " ">>}}

InitEmbed ==
  /\ use_openai = FALSE
  /\ documents = {}
  /\ chunks = <<>>
  /\ nextDoc = 1
  /\ audit = <<>>
  /\ cache = <<>>
  /\ rate = <<>>
  /\ now = 0
  /\ hist = [t \in Tenants |-> NoHist]
  /\ tasks = [i \in TaskIds |-> NewTask]
  /\ budget = [asks |-> 0, faults |-> 0, ingests |-> 0, ticks |-> 0]
  /\ \E x, y \in EmbedTexts : last = [op |-> "texts", texts |-> <<x, y>>]

EmbedCall ==
  /\ last.op = "texts"
  /\ last' = [last EXCEPT !.op = "embed"] @@ [vectors |-> embed_batch(last.texts)]
  /\ UNCHANGED <<use_openai, documents, chunks, nextDoc, audit, cache, rate, now,
                 hist, budget, tasks>>

NextEmbed == EmbedCall

SpecEmbed == InitEmbed /\ [][NextEmbed]_vars

\* The synthesizer alone: a ranked list of rows is drawn, as the search
\* returns them (scores descending, equal scores in any order), then
\* generate_answer runs without a remote model.
Hundredths(x) == RowScore([n |-> x, d |-> 100 * 100])

SynthScores == {Hundredths(x) : x \in {0 - 50, 0, 29, 30, 50, 51, 70, 71}}

SynthRows ==
  {[content |-> <<"a">>, chunk_index |-> 0, document_title |-> title, score |-> sc] :
     title \in {u.title : u \in Uploads}, sc \in SynthScores}

RankedRows ==
  {rows \in UNION {[1..n -> SynthRows] : n \in 0..MaxRows} :
     \A i, j \in 1..Len(rows) : i < j => ScoreLE(rows[j].score, rows[i].score)}

InitSynth ==
  /\ use_openai = FALSE
  /\ documents = {}
  /\ chunks = <<>>
  /\ nextDoc = 1
  /\ audit = <<>>
  /\ cache = <<>>
  /\ rate = <<>>
  /\ now = 0
  /\ hist = [t \in Tenants |-> NoHist]
  /\ tasks = [i \in TaskIds |-> NewTask]
  /\ budget = [asks |-> 0, faults |-> 0, ingests |-> 0, ticks |-> 0]
  /\ \E q \in Questions, rows \in RankedRows :
       last = [op |-> "rows", question |-> q, rows |-> rows]

SynthCall ==
  /\ last.op = "rows"
  /\ \E gen \in generate_answer(last.question, last.rows) :
       last' = [last EXCEPT !.op = "synth"] @@ [response |-> gen]
  /\ UNCHANGED <<use_openai, documents, chunks, nextDoc, audit, cache, rate, now,
                 hist, budget, tasks>>

NextSynth == SynthCall

SpecSynth == InitSynth /\ [][NextSynth]_vars

\* The rate limiter: one tenant asks MaxAsks times while the clock runs.
InitRate ==
  InitWith([asks |-> MaxAsks, faults |-> MaxFaults, ingests |-> 0, ticks |-> RateLimitWindow],
           {FALSE})

AsksOfOne == \E q \in RateQuestions : query("tA", q, SetMax(TopKs))

NextRate == AsksOfOne \/ Tick

SpecRate == InitRate /\ [][NextRate]_vars

(***************************************************************************)
(* Properties.                                                             *)
(***************************************************************************)
\* The step is an Ask call; `last'` describes it.
AskStep == budget'.asks = budget.asks - 1

\* The part of a response that a cached copy must repeat.
PayloadKeys == {"answer", "confidence", "sources", "reasoning", "model_used", "token_usage"}

Payload(r) == [f \in PayloadKeys |-> DictGet(r, f, None)]

\* What a cache miss of (t, q, k) may answer in the current state.
MissResults(t, q, k) ==
  UNION {generate_answer(q, [i \in 1..Len(found) |-> RowOf(found[i], embed(q))]) :
           found \in _retrieve_chunks(t, embed(q), k)}

\* C1: after any ingests and deletes by any tenants, every chunk the search
\* of an Ask returns belongs to the asking tenant.
C1_TenantIsolation ==
  last.op = "ask" =>
    \A i \in 1..Len(last.retrieved) : last.retrieved[i].tenant_id = last.tenant

\* A search returned a chunk while another tenant holds a chunk with the very
\* same embedding.
C1_Witness ==
  /\ last.op = "ask"
  /\ Len(last.retrieved) >= 1
  /\ \E i \in 1..Len(chunks) :
       /\ chunks[i].tenant_id # last.tenant
       /\ chunks[i].embedding = last.retrieved[1].embedding

\* C2: the cache entry an Ask reads was written by an Ask of the same tenant,
\* and a cache hit returns that entry; an Ask never reads or returns an entry
\* another tenant's Ask wrote, even for the identical question.
C2_CacheNeverCrossesTenants ==
  [][AskStep =>
       LET key == _cache_key(last'.tenant, last'.question)
       IN  /\ key \in DOMAIN cache => cache[key].writer = last'.tenant
           /\ last'.outcome = "hit" =>
                /\ Live(cache, key)
                /\ Payload(last'.response) = Payload(JsonLoads(cache[key].data))]_vars

\* A tenant's Ask was computed afresh while the cache held a live entry of
\* another tenant for the same question.
C2_Witness ==
  /\ last.op = "ask"
  /\ last.outcome = "served"
  /\ last.cache_read_fault = "none"
  /\ \E x \in DOMAIN cache :
       /\ Live(cache, x)
       /\ cache[x].writer # last.tenant
       /\ x[4] = _cache_key(last.tenant, last.question)[4]

\* C3: an Ask that is served, from the cache or by the pipeline, appends
\* exactly one audit record, for its tenant and question; an Ask the rate
\* limiter rejects appends none.
C3_AuditCompleteness ==
  [][AskStep =>
       /\ last'.outcome \in {"hit", "served"} =>
            /\ Len(audit') = Len(audit) + 1
            /\ SubSeq(audit', 1, Len(audit)) = audit
            /\ audit'[Len(audit')].tenant_id = last'.tenant
            /\ audit'[Len(audit')].query = last'.question
            /\ audit'[Len(audit')].cached = (last'.outcome = "hit")
       /\ last'.outcome = "throttled" => audit' = audit]_vars

\* A rejected Ask after a computed answer and a cached answer were logged.
C3_Witness ==
  /\ last.op = "ask"
  /\ last.outcome = "throttled"
  /\ \E i, j \in 1..Len(audit) : audit[i].cached /\ ~audit[j].cached

C5_FailOpen ==
  (last.op = "ask" /\ last.rate_fault # "none") =>
    /\ last.allowed
    /\ last.calls.embed = 1
    /\ last.outcome = "served" \/ (last.outcome = "error" /\ last.failed # "none")

\* An Ask is served although its tenant's counter is above the ceiling,
\* because the reply of the increment was lost.
C5_Witness ==
  /\ last.op = "ask"
  /\ last.rate_fault = "incr_reply"
  /\ last.outcome = "served"
  /\ Live(rate, RateKey(last.tenant))
  /\ rate[RateKey(last.tenant)].count > RateLimitRequests

\* C6: a failing cache read is a miss and a failing cache write is ignored:
\* the Ask passes the rate check, and when it is served it returns an answer,
\* confidence and sources that a miss computes, and appends the one audit
\* record of that answer.
C6_FailSoftCache ==
  [][(AskStep /\ (last'.cache_read_fault # "none" \/ last'.cache_write_fault # "none")) =>
       /\ last'.outcome # "hit"
       /\ last'.rate_checked
       /\ last'.cache_write_fault # "none" => cache' = cache
       /\ last'.outcome = "error" => last'.failed # "none"
       /\ last'.outcome = "served" =>
            /\ \E g \in MissResults(last'.tenant, last'.question, last'.top_k) :
                 /\ last'.response.answer = g.answer
                 /\ last'.response.confidence = g.confidence
                 /\ last'.response.sources = g.sources
            /\ Len(audit') = Len(audit) + 1
            /\ SubSeq(audit', 1, Len(audit)) = audit
            /\ audit'[Len(audit')].response =
                 [answer |-> last'.response.answer,
                  confidence |-> last'.response.confidence]
            /\ ~audit'[Len(audit')].cached]_vars

\* An Ask found a stored value it could not parse and was served afresh.
C6_Witness ==
  /\ last.op = "ask"
  /\ last.cache_read_fault = "malformed"
  /\ last.outcome = "served"

\* C7: an Ask that ends in an error writes neither a cache entry nor an
\* audit record.
C7_FailedAskLeavesNothing ==
  [][(AskStep /\ last'.outcome = "error") => (cache' = cache /\ audit' = audit)]_vars

\* C8: an Ask the rate limiter rejects returns the throttled response
\* (confidence low, no sources, cached false), makes no embedding, retrieval
\* or synthesis call, and writes neither the cache nor the audit log.
C8_ThrottledAsk ==
  [][(AskStep /\ last'.rate_checked /\ ~last'.allowed) =>
       /\ last'.outcome = "throttled"
       /\ PayloadKeys \cup {"cached", "latency_ms"} \subseteq DOMAIN last'.response
       /\ last'.response.confidence = "low"
       /\ last'.response.sources = <<>>
       /\ last'.response.cached = FALSE
       /\ last'.calls = NoCalls
       /\ cache' = cache
       /\ audit' = audit]_vars

\* An Ask was rejected.
C8_Witness ==
  /\ last.op = "ask"
  /\ last.outcome = "throttled"
  /\ rate[RateKey(last.tenant)].count > RateLimitRequests

\* C9: with a working cache, an Ask that is served stores its payload for
\* CacheTtl; the entry stays as it is until then, unless an Ask that could not
\* read it computes it again; and an identical Ask that finds it returns the same answer, confidence, sources, reasoning,
\* model_used and token_usage, with cached true, and calls neither the
\* embedding, the retrieval nor the synthesis.
C9_CacheIdempotence ==
  [][/\ AskStep =>
          LET key == _cache_key(last'.tenant, last'.question)
          IN  /\ (last'.outcome = "served" /\ last'.cache_write_fault = "none") =>
                   /\ key \in DOMAIN cache'
                   /\ cache'[key].expires_at = now + CacheTtl
                   /\ Payload(JsonLoads(cache'[key].data)) = Payload(last'.response)
              /\ (Live(cache, key) /\ last'.cache_read_fault = "none") =>
                   /\ last'.calls = NoCalls
                   /\ cache' = cache
                   /\ last'.outcome = "hit"
                        \/ (last'.outcome = "error" /\ last'.failed # "none")
                   /\ last'.outcome = "hit" =>
                        /\ Payload(last'.response) = Payload(JsonLoads(cache[key].data))
                        /\ last'.response.cached = TRUE
     /\ \A x \in DOMAIN cache :
          now' < cache[x].expires_at =>
            /\ x \in DOMAIN cache'
            /\ cache'[x] = cache[x]
                 \/ (AskStep /\ x = _cache_key(last'.tenant, last'.question)
                       /\ last'.cache_read_fault # "none")]_vars

\* A second Ask, later than the first and within the TTL, was answered from
\* the entry of the first, with another latency.
C9_Witness ==
  /\ last.op = "ask"
  /\ last.outcome = "hit"
  /\ LET key == _cache_key(last.tenant, last.question)
     IN  /\ Live(cache, key)
         /\ cache[key].expires_at - CacheTtl < now
         /\ JsonLoads(cache[key].data).latency_ms # last.response.latency_ms
         /\ JsonLoads(cache[key].data).sources # <<>>

\* C10: a cache hit leaves the rate counters untouched, makes no embedding,
\* retrieval or synthesis call and only appends its audit record; and an Ask
\* that finds its entry is a hit whatever the tenant's counter says.
C10_HitShortCircuits ==
  [][AskStep =>
       LET key == _cache_key(last'.tenant, last'.question)
       IN  /\ last'.outcome = "hit" =>
                /\ rate' = rate
                /\ ~last'.rate_checked
                /\ last'.calls = NoCalls
                /\ cache' = cache
                /\ Len(audit') = Len(audit) + 1
           /\ (Live(cache, key) /\ last'.cache_read_fault = "none"
                 /\ last'.failed = "none") =>
                last'.outcome = "hit"]_vars

\* A cached question was served to a tenant whose counter is above the ceiling.
C10_Witness ==
  /\ last.op = "ask"
  /\ last.outcome = "hit"
  /\ Live(rate, RateKey(last.tenant))
  /\ rate[RateKey(last.tenant)].count > RateLimitRequests

\* C11: while the counting store answers, in every interval of length
\* RateLimitWindow at most RateLimitRequests of a tenant's admission checks
\* are admitted.
C11_RollingWindowCap ==
  \A t \in Tenants :
    ~hist[t].faulted => Len(hist[t].admitted) <= RateLimitRequests

\* C12: between admission checks every rate counter in the store has an
\* expiry, so that no counter outlives its window.
C12_EveryCounterExpires ==
  \A key \in DOMAIN rate : rate[key].expires_at # NoExpiry

\* C13: a served cache miss returns as request_id the id of the audit
\* record it appended; a cache hit appends its audit record and returns no
\* request_id, and neither does a rejected Ask; no cache entry holds a
\* request_id.
C13_RequestIdOnMissOnly ==
  [][AskStep =>
       /\ last'.outcome = "served" =>
            /\ Len(audit') = Len(audit) + 1
            /\ last'.response.request_id = UuidStr(audit'[Len(audit')].id)
       /\ last'.outcome = "hit" =>
            /\ Len(audit') = Len(audit) + 1
            /\ "request_id" \notin DOMAIN last'.response
       /\ last'.outcome = "throttled" => "request_id" \notin DOMAIN last'.response
       /\ \A x \in DOMAIN cache' :
            \A m \in cache'[x].data : m[1] # "request_id"]_vars

\* A hit on an answer of the remote model that came with a field request_id
\* of its own.
C13_Witness ==
  /\ last.op = "ask"
  /\ last.outcome = "hit"
  /\ last.response.model_used = "gpt-4o-mini"
  /\ last.response.confidence = "low"
  /\ "request_id" \notin DOMAIN last.response
  /\ audit[Len(audit)].cached

\* The positions in table document_chunks of the chunks of document d.
ChunksOf(d) == {i \in 1..Len(chunks) : chunks[i].document_id = d.id}

\* C14: for every stored document the indices of its chunks are exactly
\* 0..n-1, one chunk each, where n is the number of chunks the chunker makes
\* of its content, and every chunk has the tenant of its document.
C14_ChunkIndicesContiguous ==
  \A d \in documents :
    LET n == Len(chunk_text(d.content, ChunkMaxChars, ChunkOverlapChars))
    IN  /\ Cardinality(ChunksOf(d)) = n
        /\ {chunks[i].chunk_index : i \in ChunksOf(d)} = 0..(n - 1)
        /\ \A i \in ChunksOf(d) : chunks[i].tenant_id = d.tenant_id

\* A document of two chunks is stored after another document was deleted.
C14_Witness ==
  /\ last.op = "delete"
  /\ last.outcome = "deleted"
  /\ \E d \in documents : Cardinality(ChunksOf(d)) = 2

\* The step is an Ingest call; `last'` describes it.
IngestStep == budget'.ingests = budget.ingests - 1

C16_DeleteScopedCascade ==
  [][/\ last'.op = "delete" =>
          LET own == {d \in documents :
                        d.id = last'.doc /\ d.tenant_id = last'.tenant}
              NotOfDoc(c) == c.document_id # last'.doc
          IN  IF own = {}
              THEN /\ last'.outcome = "not_found"
                   /\ documents' = documents
                   /\ chunks' = chunks
              ELSE /\ last'.outcome = "deleted"
                   /\ documents' = documents \ own
                   /\ chunks' = SelectSeq(chunks, NotOfDoc)
                   /\ \A i \in 1..Len(chunks') : chunks'[i].document_id # last'.doc
     /\ AskStep =>
          \A i \in 1..Len(last'.retrieved) :
            \E d \in documents : d.id = last'.retrieved[i].document_id]_vars

\* A search returns a chunk after another document was deleted.
C16_Witness ==
  /\ last.op = "ask"
  /\ Len(last.retrieved) >= 1
  /\ nextDoc > Cardinality(documents) + 1

\* C17: no operation removes or changes an audit record: after every step
\* the audit log starts with the audit log of before.
C17_AuditAppendOnly ==
  [][/\ Len(audit') >= Len(audit)
     /\ SubSeq(audit', 1, Len(audit)) = audit]_vars

\* A document is deleted after two Asks were logged.
C17_Witness ==
  /\ last.op = "delete"
  /\ last.outcome = "deleted"
  /\ Len(audit) = 2

\* p occurs in c as a contiguous piece.
IsSubstring(p, c) ==
  \E k \in 0..(Len(c) - Len(p)) : SubSeq(c, k + 1, k + Len(p)) = p

\* Every paragraph from the i-th on lies whole in a chunk, the chunks taken
\* from the j-th on and never going back.
RECURSIVE InOrder(_, _, _, _)
InOrder(paras, i, result, j) ==
  IF i > Len(paras) THEN TRUE
  ELSE IF j > Len(result) THEN FALSE
  ELSE IF IsSubstring(paras[i], result[j].content)
       THEN InOrder(paras, i + 1, result, j)
       ELSE InOrder(paras, i, result, j + 1)

\* C18: every chunk is at most max_chars long, unless it is a single
\* paragraph that is longer than max_chars by itself.
C18_ChunkLengthBound ==
  last.op = "chunk" =>
    \A i \in 1..Len(last.result) :
      \/ Len(last.result[i].content) <= last.max_chars
      \/ \E p \in 1..Len(last.paras) : last.paras[p] = last.result[i].content

\* C19: for a text and an overlap, a smaller max_chars never gives fewer
\* chunks than a larger one.
C19_CountMonotone ==
  last.op = "chunk" =>
    \A m \in 1..MaxMaxChars :
      m < last.max_chars =>
        Len(chunk_text(last.content, m, last.overlap_chars)) >= Len(last.result)

\* C20: every paragraph of the text lies whole in a chunk, in the order of
\* the text; the chunks are numbered 0, 1, 2, ...; no chunk is empty; and
\* there is no chunk exactly when the text is empty after trimming.
C20_ChunksCoverParagraphs ==
  last.op = "chunk" =>
    /\ InOrder(last.paras, 1, last.result, 1)
    /\ \A i \in 1..Len(last.result) :
         /\ last.result[i].index = i - 1
         /\ last.result[i].content # <<>>
    /\ (last.result = <<>>) <=> (StrStrip(last.content) = <<>>)

\* A text of four paragraphs or more, with white space around it, was cut
\* into three chunks or more with an overlap.
C20_Witness ==
  /\ last.op = "chunk"
  /\ Len(last.paras) >= 4
  /\ Len(last.result) >= 3
  /\ last.overlap_chars > 0
  /\ last.content[1] = " "

\* The rows at or above the relevance threshold, in rank order.
AtOrAboveThreshold(r) == ScoreGE(r.score, RelevanceThreshold)

Qualifying(rows) == SelectSeq(rows, AtOrAboveThreshold)

\* C21: the synthesizer returns the cannot-answer response (confidence low,
\* no sources, zero token usage) exactly when no row scores at or above the
\* relevance threshold; otherwise its sources are the first
\* min(TopSources, number of qualifying rows) qualifying rows in rank order.
C21_SourcesAreTopQualifying ==
  last.op = "synth" =>
    LET qual == Qualifying(last.rows)
        n == IF Len(qual) < TopSources THEN Len(qual) ELSE TopSources
        r == last.response
    IN  /\ (qual = <<>>) <=> (r = NoAnswer)
        /\ qual = <<>> =>
             /\ r.confidence = "low"
             /\ r.sources = <<>>
             /\ r.token_usage = [input_tokens |-> 0, output_tokens |-> 0, cost_usd |-> 0]
        /\ qual # <<>> =>
             /\ Len(r.sources) = n
             /\ n >= 1
             /\ n <= TopSources
             /\ \A i \in 1..n :
                  /\ r.sources[i].document_title = qual[i].document_title
                  /\ r.sources[i].chunk_content = qual[i].content
                  /\ r.sources[i].relevance_score = RoundScore(qual[i].score)
                  /\ r.sources[i].relevance_score >= RelevanceThreshold

\* More rows qualify than are cited, and the last one cited is exactly at
\* the threshold.
C21_Witness ==
  /\ last.op = "synth"
  /\ Len(Qualifying(last.rows)) > TopSources
  /\ Len(last.response.sources) = TopSources
  /\ last.response.sources[TopSources].relevance_score = RelevanceThreshold

\* C22: when a row qualifies, the confidence is high if the greatest
\* qualifying score is above 0.7, medium if it is above 0.5 and not above
\* 0.7, and low otherwise, for every list the search can return.
C22_ConfidenceFromBestScore ==
  (last.op = "synth" /\ Qualifying(last.rows) # <<>>) =>
    LET qual == Qualifying(last.rows)
        best == CHOOSE i \in 1..Len(qual) :
                  \A j \in 1..Len(qual) : ScoreLE(qual[j].score, qual[i].score)
        score == qual[best].score
    IN  last.response.confidence =
          (IF ScoreGT(score, HighConfidence) THEN "high"
           ELSE IF ScoreGT(score, MediumConfidence) THEN "medium"
           ELSE "low")

\* The best of several qualifying scores is exactly 0.7 and the confidence
\* is medium.
C22_Witness ==
  /\ last.op = "synth"
  /\ Len(Qualifying(last.rows)) >= 2
  /\ last.rows[1].score = Hundredths(HighConfidence)
  /\ last.rows[Len(last.rows)].score # last.rows[1].score
  /\ last.response.confidence = "medium"

\* The chunk rows a tenant owns.
OwnedBy(t) == {i \in 1..Len(chunks) : chunks[i].tenant_id = t}

\* The score of a chunk row against the question of the last Ask.
ScoreInLastAsk(c) == CosineScore(c.embedding, embed(last.question))

\* C23: the search of an Ask returns min(top_k, number of chunks its tenant
\* owns) results, all different chunks of that tenant, and no chunk of the
\* tenant that is left out scores strictly higher than one returned.
C23_TopKOfTenant ==
  (last.op = "ask" /\ last.outcome = "served") =>
    LET owned == OwnedBy(last.tenant)
        n == IF Cardinality(owned) < last.top_k THEN Cardinality(owned) ELSE last.top_k
        got == {last.retrieved[i] : i \in 1..Len(last.retrieved)}
    IN  /\ Len(last.retrieved) = n
        /\ Cardinality(got) = n
        /\ got \subseteq {chunks[i] : i \in owned}
        /\ \A i \in owned :
             chunks[i] \notin got =>
               \A r \in got : ScoreLE(ScoreInLastAsk(chunks[i]), ScoreInLastAsk(r))

\* A search for two chunks left out a chunk of the tenant with a strictly
\* lower score.
C23_Witness ==
  /\ last.op = "ask"
  /\ last.outcome = "served"
  /\ last.top_k = SetMax(TopKs)
  /\ Len(last.retrieved) = last.top_k
  /\ \E i \in OwnedBy(last.tenant) :
       ScoreLT(ScoreInLastAsk(chunks[i]), ScoreInLastAsk(last.retrieved[Len(last.retrieved)]))

\* The position of a chunk row in table document_chunks: its insertion order.
InsertionOrder(c) == CHOOSE i \in 1..Len(chunks) : chunks[i] = c

\* C24: the results of a search are in descending order of score, and of
\* two chunks of the tenant with equal scores the one inserted first comes
\* first (and is the one returned, when only one of them is).
C24_StableRanking ==
  (last.op = "ask" /\ last.outcome = "served") =>
    LET got == last.retrieved
        Tied(a, b) == ScoreLE(ScoreInLastAsk(a), ScoreInLastAsk(b))
                        /\ ScoreLE(ScoreInLastAsk(b), ScoreInLastAsk(a))
    IN  /\ \A i, j \in 1..Len(got) :
             i < j =>
               /\ ScoreLE(ScoreInLastAsk(got[j]), ScoreInLastAsk(got[i]))
               /\ Tied(got[i], got[j]) =>
                    InsertionOrder(got[i]) < InsertionOrder(got[j])
        /\ \A i \in 1..Len(got), k \in OwnedBy(last.tenant) :
             (Tied(got[i], chunks[k]) /\ \A j \in 1..Len(got) : got[j] # chunks[k]) =>
               InsertionOrder(got[i]) < k

\* The vocabulary of a text: its words, lower-cased, with everything but
\* letters and digits removed.
Vocabulary(text) ==
  {CleanWord(w) : w \in SeqRange(StrSplit(StrLower(text)))} \ {<<>>}

\* Two directions that the L2 normalisation maps to the same vector.
SameVector(u, v) ==
  /\ \A d, e \in Dims : u[d] * v[e] = u[e] * v[d]
  /\ Dot(u, v) > 0

\* C25: two texts with the same vocabulary have the same embedding.
C25_EmbeddingOfVocabulary ==
  (last.op = "embed" /\ Vocabulary(last.texts[1]) = Vocabulary(last.texts[2])) =>
    SameVector(last.vectors[1], last.vectors[2])

\* A question without its case and its white space: its words, lower-cased.
WordsOf(question) == StrSplit(StrLower(question))

\* C26: an Ask whose question differs only in letter case or in white space
\* (leading, trailing or between words) from a question whose cache entry is
\* live has the same cache key and is served from that entry.
C26_KeyIgnoresCaseAndSpace ==
  [][AskStep =>
       \A q \in KeyQuestions :
         (/\ WordsOf(q) = WordsOf(last'.question)
          /\ Live(cache, _cache_key(last'.tenant, q))
          /\ last'.cache_read_fault = "none"
          /\ last'.failed = "none") =>
           /\ _cache_key(last'.tenant, q) = _cache_key(last'.tenant, last'.question)
           /\ last'.outcome = "hit"]_vars

\* The tasks of a tenant whose increment returned a counter value.
Counted(t) == {i \in TaskIds : tasks[i].tenant = t /\ tasks[i].current > 0}

\* The counting store failed no task of the tenant.
StoreAnswered(t) ==
  \A i \in TaskIds : tasks[i].tenant = t => tasks[i].rate_fault = "none"

\* C27: while the counting store answers, the concurrent Asks of a tenant
\* that miss the cache each see another value of the counter, and at most
\* RateLimitRequests of them are admitted, however their steps interleave.
C27_ConcurrentAdmissions ==
  \A t \in Tenants :
    StoreAnswered(t) =>
      /\ \A i, j \in Counted(t) : i # j => tasks[i].current # tasks[j].current
      /\ Cardinality({i \in TaskIds : tasks[i].tenant = t /\ tasks[i].allowed})
           <= RateLimitRequests

\* Three Asks of one tenant incremented the counter before the first of
\* them set the expiry: one is admitted, one is rejected, and the first is
\* still at its EXPIRE.
C27_Witness ==
  \E i, j, k \in TaskIds :
    /\ tasks[i].pc = "expire"
    /\ tasks[j].tenant = tasks[i].tenant
    /\ tasks[j].allowed
    /\ tasks[j].rate_fault = "none"
    /\ tasks[k].tenant = tasks[i].tenant
    /\ tasks[k].pc = "throttled"

\* C28: every Ask that misses the cache and whose increment the store
\* executes adds exactly one to its tenant's counter, whether it is then
\* served, rejected or fails; the increment that opens a window sets the
\* expiry to RateLimitWindow from then and is admitted, and no later one
\* moves it; a cache hit leaves the counters alone; and no counter ever
\* goes down.
C28_OneIncrementPerMiss ==
  [][/\ AskStep =>
          LET key == RateKey(last'.tenant)
          IN  IF last'.rate_checked /\ last'.rate_fault # "incr"
              THEN /\ key \in DOMAIN rate'
                   /\ \A x \in DOMAIN rate' : x # key => (x \in DOMAIN rate /\ rate'[x] = rate[x])
                   /\ Live(rate, key) =>
                        /\ rate'[key].count = rate[key].count + 1
                        /\ rate'[key].expires_at = rate[key].expires_at
                   /\ ~Live(rate, key) =>
                        /\ rate'[key].count = 1
                        /\ rate'[key].expires_at = now + RateLimitWindow
                        /\ last'.allowed
              ELSE rate' = rate
     /\ \A x \in DOMAIN rate :
          x \in DOMAIN rate' => rate'[x].count >= rate[x].count]_vars

\* C29: a step changes the cache only if it is a served cache miss, which
\* writes the entry of its own key, or the passing of time, which removes
\* the entries whose TTL has elapsed; a cache hit, an Ingest and a Delete
\* leave every entry as it is, expiry included; and an Ask that hits returns
\* the stored payload whatever happened to the documents since.
C29_CacheWrittenByServedMissOnly ==
  [][/\ \A x \in (DOMAIN cache) \cup (DOMAIN cache') :
          (x \notin DOMAIN cache \/ x \notin DOMAIN cache' \/ cache'[x] # cache[x]) =>
            \/ /\ AskStep
               /\ last'.outcome = "served"
               /\ x = _cache_key(last'.tenant, last'.question)
               /\ x \in DOMAIN cache'
               /\ cache'[x].expires_at = now + CacheTtl
            \/ /\ x \in DOMAIN cache
               /\ x \notin DOMAIN cache'
               /\ now' >= cache[x].expires_at
     /\ (AskStep /\ last'.outcome = "hit") =>
          /\ cache' = cache
          /\ Payload(last'.response) =
               Payload(JsonLoads(cache[_cache_key(last'.tenant, last'.question)].data))
     /\ (last'.op \in {"ingest", "delete"}) => cache' = cache]_vars

\* The task read the cache and missed.
Missed(i) == tasks[i].pc \notin {"idle", "log_hit"} /\ ~CacheHit(tasks[i].cached)

\* The task has made its synthesis and holds the result.
Synthesized(i) == tasks[i].pc \in {"set_cache", "log"} \/ tasks[i].outcome = "served"

\* The task has passed its cache write, and the write reached the store.
Stored(i) ==
  /\ tasks[i].pc = "log" \/ (tasks[i].pc = "done" /\ tasks[i].result # None)
  /\ tasks[i].cache_write_fault = "none"

\* C30: of concurrent Asks for the same tenant and question that miss the
\* cache, each adds one to the tenant's counter, each makes its own
\* synthesis, each one served has one audit record of its own, and the
\* cache entry of the key is the payload of one of them, never a mixture.
C30_ConcurrentMissesOfOneKey ==
  /\ \A t \in Tenants :
       (StoreAnswered(t) /\ Live(rate, RateKey(t))) =>
         rate[RateKey(t)].count =
           Cardinality({i \in TaskIds :
                          tasks[i].tenant = t /\ Missed(i) /\ tasks[i].pc # "incr"})
  /\ \A i \in TaskIds :
       /\ Synthesized(i) =>
            /\ Missed(i)
            /\ tasks[i].calls = [embed |-> 1, retrieve |-> 1, synth |-> 1]
       /\ tasks[i].outcome = "served" =>
            /\ Cardinality({n \in 1..Len(audit) :
                              tasks[i].response.request_id = UuidStr(audit[n].id)}) = 1
            /\ \E n \in 1..Len(audit) :
                 /\ tasks[i].response.request_id = UuidStr(audit[n].id)
                 /\ audit[n].tenant_id = tasks[i].tenant
                 /\ audit[n].query = tasks[i].question
                 /\ audit[n].latency_ms = tasks[i].result.latency_ms
                 /\ ~audit[n].cached
            /\ \A j \in TaskIds :
                 (j # i /\ tasks[j].outcome = "served") =>
                   tasks[j].response.request_id # tasks[i].response.request_id
  /\ \A key \in DOMAIN cache :
       \E i \in TaskIds :
         /\ Stored(i)
         /\ _cache_key(tasks[i].tenant, tasks[i].question) = key
         /\ cache[key].data = JsonDumps(DictDrop(tasks[i].result, "request_id"))
  /\ \A i \in TaskIds :
       Stored(i) => _cache_key(tasks[i].tenant, tasks[i].question) \in DOMAIN cache

\* Two Asks of one tenant for one question both missed and were both
\* served, with different latencies; the entry is the payload of the one
\* that logged first.
C30_Witness ==
  \E i, j \in TaskIds :
    /\ i # j
    /\ tasks[i].tenant = tasks[j].tenant
    /\ tasks[i].question = tasks[j].question
    /\ tasks[i].outcome = "served"
    /\ tasks[j].outcome = "served"
    /\ tasks[i].result.latency_ms # tasks[j].result.latency_ms
    /\ tasks[i].response.request_id = UuidStr(1)
    /\ cache[_cache_key(tasks[i].tenant, tasks[i].question)].data =
         JsonDumps(DictDrop(tasks[i].result, "request_id"))
    /\ rate[RateKey(tasks[i].tenant)].count = 2

====
